---- MODULE Spec2Model ----
(***************************************************************************)
(* Task API (FastAPI + asyncpg): the HTTP routes of app/api/routes_tasks.py *)
(* over the query layer of app/db/crud.py and the tasks table that          *)
(* app/main.py creates.  One action per kind of HTTP request; an action is  *)
(* the whole exchange: routing, request validation, the handler, the        *)
(* engine operation with its SQL statements, and the response.              *)
(*                                                                         *)
(* Text values are sequences of one-character strings, so that ILIKE and    *)
(* substring tests are computed, not assumed.                               *)
(***************************************************************************)
EXTENDS Integers, Sequences, FiniteSets, TLC

VARIABLES
    tasks,      \* the rows of table tasks: records id, name, description, status_id, flag_id
    seq,        \* last value handed out by the SERIAL sequence of tasks.id
    req,        \* the HTTP request served last
    resp,       \* its response: status code and body
    pre,        \* observation: the rows of the table when that request arrived
    removed,    \* observation: ids whose row a DELETE /tasks/{id} has removed
    checked_out,\* connections of the pool that are acquired and not released
    ops         \* per client: where its engine operation stands

vars == <<tasks, seq, req, resp, pre, removed, checked_out, ops>>

\* ------------------------------------------------------------------ bounds

\* Values the id sequence may hand out before the model stops inserting.
MaxSeq == 3

\* Clients that run engine operations concurrently.
NumClients == 3

\* Connections of the pool (settings.DB_POOL_MAX_SIZE, 20 as shipped), taken
\* below the number of clients so that the clients can exhaust the pool.
PoolMax == 2

\* ------------------------------------------------------- program constants

MaxBatch == 100
LimitDefault == 100
LimitMax == 1000

\* ----------------------------------------------------------------- values

\* Optional[T]: None, or Some(v).
None == [some |-> FALSE]
Some(v) == [some |-> TRUE, val |-> v]

TaskFields == {"name", "description", "status_id", "flag_id"}

\* Text used by the requests of the model.
sEmpty == << >>
sAb == <<"a", "b">>
sB == <<"B">>
sDescA == <<"A">>
sTermA == <<"a">>
sTermB == <<"B">>
sTermUnderscore == <<"_">>

Lower(c) == CASE c = "A" -> "a" [] c = "B" -> "b" [] OTHER -> c

Min(a, b) == IF a < b THEN a ELSE b

Ids(table) == {t.id : t \in table}

RowOf(table, id) == CHOOSE t \in table : t.id = id

\* -------------------------------------------------------------- the store

\* CREATE TABLE tasks: id SERIAL PRIMARY KEY, name TEXT NOT NULL UNIQUE,
\* description TEXT, status_id CHECK IN (1,2,3), flag_id CHECK IN (1,2).
StatusCheck(status_id) == status_id \in {1, 2, 3}
FlagCheck(flag_id) == flag_id \in {1, 2}
NameUnique(table, name, except_id) ==
    \A t \in table : t.id # except_id => t.name # name

\* INSERT INTO tasks (name, description, status_id, flag_id) VALUES (...)
\* RETURNING ...: the id default draws the next sequence value (kept even
\* when the statement fails); the CHECK constraints are tested on the new
\* row before it is stored, the unique index when it is stored.
InsertRow(table, s, task) ==
    LET row == [id |-> s + 1, name |-> task.name, description |-> task.description,
                status_id |-> task.status_id, flag_id |-> task.flag_id]
    IN  IF ~(StatusCheck(task.status_id) /\ FlagCheck(task.flag_id))
        THEN [tasks |-> table, seq |-> s + 1, row |-> None, exc |-> "CheckViolationError"]
        ELSE IF ~NameUnique(table, task.name, 0)
        THEN [tasks |-> table, seq |-> s + 1, row |-> None, exc |-> "UniqueViolationError"]
        ELSE [tasks |-> table \cup {row}, seq |-> s + 1, row |-> Some(row), exc |-> "none"]

\* ------------------------------------------------------- text matching

\* s ILIKE p: % matches any run of characters, _ any one character, a
\* backslash makes the next pattern character literal; letters match
\* whatever their case.
RECURSIVE LikeMatch(_, _)
LikeMatch(s, p) ==
    IF p = << >> THEN s = << >>
    ELSE IF Head(p) = "%"
         THEN LikeMatch(s, Tail(p)) \/ (s # << >> /\ LikeMatch(Tail(s), p))
    ELSE IF Head(p) = "_"
         THEN s # << >> /\ LikeMatch(Tail(s), Tail(p))
    ELSE IF Head(p) = "\\" /\ Len(p) > 1
         THEN s # << >> /\ Lower(Head(s)) = Lower(p[2])
              /\ LikeMatch(Tail(s), Tail(Tail(p)))
    ELSE s # << >> /\ Lower(Head(s)) = Lower(Head(p)) /\ LikeMatch(Tail(s), Tail(p))

\* column ILIKE pattern on a nullable column: NULL ILIKE p is not true.
ColumnILike(col, p) == col.some /\ LikeMatch(col.val, p)

\* f"%{search_term}%"
SearchPattern(search_term) == <<"%">> \o search_term \o <<"%">>

\* The CASE of search_tasks's ORDER BY.
SearchRank(t, p) ==
    IF LikeMatch(t.name, p) THEN 1
    ELSE IF ColumnILike(t.description, p) THEN 2
    ELSE 3

\* ORDER BY id.
RECURSIVE OrderById(_)
OrderById(rows) ==
    IF rows = {} THEN << >>
    ELSE LET first == CHOOSE t \in rows : \A u \in rows : t.id <= u.id
         IN  <<first>> \o OrderById(rows \ {first})

\* LIMIT n OFFSET k on an ordered result.
LimitOffset(rows, n, k) ==
    SubSeq(rows, k + 1, Min(Len(rows), k + n))

\* ------------------------------------------------ the engine (TaskCRUD)

\* An engine result: the table and sequence afterwards, the value returned,
\* and the exception raised ("none": returned normally).
Returned(table, s, ret) == [tasks |-> table, seq |-> s, ret |-> ret, exc |-> "none", msg |-> ""]
Raised(table, s, exc, msg) == [tasks |-> table, seq |-> s, ret |-> None, exc |-> exc, msg |-> msg]

\* TaskCRUD.create
create(table, s, task) ==
    LET ins == InsertRow(table, s, task)
    IN  IF ins.exc = "none" THEN Returned(ins.tasks, ins.seq, ins.row.val)
        ELSE IF ins.exc = "UniqueViolationError"
        THEN Raised(ins.tasks, ins.seq, "ValueError", "Task with this name already exists")
        ELSE IF ins.exc = "ForeignKeyViolationError"
        THEN Raised(ins.tasks, ins.seq, "ValueError", "Invalid status_id or flag_id")
        ELSE Raised(ins.tasks, ins.seq, ins.exc, ins.exc)

\* conn.executemany(query, args): the INSERT once per element, in order,
\* stopping at the first that fails.
RECURSIVE ExecuteMany(_, _, _)
ExecuteMany(table, s, batch) ==
    IF batch = << >> THEN [tasks |-> table, seq |-> s, exc |-> "none"]
    ELSE LET ins == InsertRow(table, s, Head(batch))
         IN  IF ins.exc # "none"
             THEN [tasks |-> ins.tasks, seq |-> ins.seq, exc |-> ins.exc]
             ELSE ExecuteMany(ins.tasks, ins.seq, Tail(batch))

\* Mutant of TransactionExit: the block's writes are kept even when it raises.
TransactionExit_NoRollback(before, after, raised) == after

\* async with conn.transaction(): the block's writes are kept when it ends
\* normally and undone when it raises.
TransactionExit(before, after, raised) == IF raised THEN before ELSE after

\* TaskCRUD.create_batch.  executemany returns None, so the list
\* comprehension over its result raises TypeError inside the transaction.
create_batch(table, s, batch) ==
    IF batch = << >> THEN Returned(table, s, << >>)
    ELSE LET ex == ExecuteMany(table, s, batch)
             rows == None
             exc == IF ex.exc # "none" THEN ex.exc
                    ELSE IF ~rows.some THEN "TypeError" ELSE "none"
             kept == TransactionExit(table, ex.tasks, exc # "none")
         IN  IF exc = "none" THEN Returned(kept, ex.seq, rows.val)
             ELSE Raised(kept, ex.seq, exc, exc)

\* TaskCRUD.get_all
get_all(table, s, limit, offset) ==
    Returned(table, s, LimitOffset(OrderById(table), limit, offset))

\* TaskCRUD.get_by_id
get_by_id(table, s, task_id) ==
    Returned(table, s, IF task_id \in Ids(table) THEN Some(RowOf(table, task_id)) ELSE None)

\* TaskCRUD.get_by_status
get_by_status(table, s, status_id, limit) ==
    Returned(table, s,
             LimitOffset(OrderById({t \in table : t.status_id = status_id}), limit, 0))

\* TaskCRUD.search_tasks
search_tasks(table, s, search_term, limit) ==
    LET p == SearchPattern(search_term)
        hit == {t \in table : LikeMatch(t.name, p) \/ ColumnILike(t.description, p)}
        ordered == OrderById({t \in hit : SearchRank(t, p) = 1})
                   \o OrderById({t \in hit : SearchRank(t, p) = 2})
                   \o OrderById({t \in hit : SearchRank(t, p) = 3})
    IN  Returned(table, s, LimitOffset(ordered, limit, 0))

\* The columns update() may set, in the order its if-chain tests them.
UpdateColumns == <<"name", "description", "status_id", "flag_id">>

ColumnType(col) == IF col \in {"name", "description"} THEN "text" ELSE "int4"

\* update_data: the fields of the TaskUpdate that are not None, as
\* (column, bound value) pairs in the order they were added.
RECURSIVE UpdateData(_, _)
UpdateData(task_update, k) ==
    IF k > Len(UpdateColumns) THEN << >>
    ELSE LET col == UpdateColumns[k]
         IN  (IF task_update[col].some
              THEN <<[col |-> col, type |-> ColumnType(col), val |-> task_update[col].val]>>
              ELSE << >>)
             \o UpdateData(task_update, k + 1)

\* f"{k} = ${i+2}" for i, k in enumerate(update_data.keys()): the number of
\* the placeholder of the i-th column (i counted from 0).
SetPlaceholder(i) == i + 2

\* WHERE id = ${len(values)}
WherePlaceholder(values) == Len(values)

Max(S) == CHOOSE x \in S : \A y \in S : y <= x

\* UPDATE tasks SET col = $a, ... WHERE id = $w RETURNING ..., prepared and
\* run with the argument list values.  The server numbers the statement's
\* parameters $1..$n, n the highest placeholder used, and types each from
\* its uses: one never used has no type, one used for a text and an integer
\* column has no common type.  The driver wants as many arguments as
\* parameters, each of its parameter's type.  The new row must pass the
\* CHECK constraints and then the unique index.
UpdateStatement(table, s, data, values) ==
    LET n == Len(data)
        set_ph == [i \in 1..n |-> SetPlaceholder(i - 1)]
        where_ph == WherePlaceholder(values)
        used == {set_ph[i] : i \in 1..n} \cup {where_ph}
        nparams == Max(used)
        UsesOf(k) == {ColumnType(data[i].col) : i \in {j \in 1..n : set_ph[j] = k}}
                     \cup (IF where_ph = k THEN {"int4"} ELSE {})
        Bound(k) == values[k].val
        target == {t \in table : t.id = Bound(where_ph)}
        New(t) == [c \in DOMAIN t |->
                     IF \E i \in 1..n : data[i].col = c
                     THEN LET i == CHOOSE j \in 1..n : data[j].col = c /\
                                       \A m \in 1..n : data[m].col = c => m <= j
                          IN  IF c = "description" THEN Some(Bound(set_ph[i]))
                              ELSE Bound(set_ph[i])
                     ELSE t[c]]
    IN  IF \E k \in 1..nparams : UsesOf(k) = {}
        THEN Raised(table, s, "IndeterminateDatatypeError", "could not determine data type of parameter")
        ELSE IF \E k \in 1..nparams : Cardinality(UsesOf(k)) > 1
        THEN Raised(table, s, "UndefinedFunctionError", "operator does not exist")
        ELSE IF Len(values) # nparams
        THEN Raised(table, s, "InterfaceError", "the server expects a different number of arguments")
        ELSE IF \E k \in 1..nparams : values[k].type \notin UsesOf(k)
        THEN Raised(table, s, "DataError", "invalid input for query argument")
        ELSE IF target = {} THEN Returned(table, s, None)
        ELSE LET t == CHOOSE u \in target : TRUE
                 new == New(t)
             IN  IF ~(StatusCheck(new.status_id) /\ FlagCheck(new.flag_id))
                 THEN Raised(table, s, "CheckViolationError", "CheckViolationError")
                 ELSE IF ~NameUnique(table, new.name, t.id)
                 THEN Raised(table, s, "UniqueViolationError", "UniqueViolationError")
                 ELSE Returned((table \ {t}) \cup {new}, s, Some(new))

\* TaskCRUD.update after its existence check found the row: the collected
\* fields, then either SELECT * (no field) or the UPDATE ... RETURNING *, and
\* Task(**dict(row)) of the row fetched, which raises when no row came back.
update_after_check(table, s, task_id, task_update) ==
    LET update_data == UpdateData(task_update, 1)
    IN  IF update_data = << >>
        THEN IF task_id \in Ids(table)
             THEN Returned(table, s, Some(RowOf(table, task_id)))
             ELSE Raised(table, s, "TypeError", "TypeError")
        ELSE LET values == [i \in 1..Len(update_data) |->
                               [type |-> update_data[i].type, val |-> update_data[i].val]]
                           \o <<[type |-> "int4", val |-> task_id]>>
                 st == UpdateStatement(table, s, update_data, values)
             IN  IF st.exc = "ForeignKeyViolationError"
                 THEN Raised(table, s, "ValueError", "Invalid status_id or flag_id")
                 ELSE IF st.exc # "none" THEN st
                 ELSE IF ~st.ret.some
                 THEN Raised(st.tasks, s, "TypeError", "TypeError")
                 ELSE st

\* TaskCRUD.update: SELECT id FROM tasks WHERE id = $1, None when no row.
update(table, s, task_id, task_update) ==
    IF task_id \notin Ids(table) THEN Returned(table, s, None)
    ELSE update_after_check(table, s, task_id, task_update)

\* Mutant of delete: reports the row found and leaves it in the table.
delete_KeepsRow(table, s, task_id) ==
    Returned(table, s, task_id \in Ids(table))

\* TaskCRUD.delete: DELETE FROM tasks WHERE id = $1; result == "DELETE 1".
delete(table, s, task_id) ==
    LET gone == {t \in table : t.id = task_id}
    IN  Returned(table \ gone, s, Cardinality(gone) = 1)

\* TaskCRUD.delete_batch: DELETE FROM tasks WHERE id = ANY($1).
delete_batch(table, s, task_ids) ==
    IF task_ids = << >> THEN Returned(table, s, 0)
    ELSE LET listed == {task_ids[i] : i \in 1..Len(task_ids)}
             gone == {t \in table : t.id \in listed}
         IN  Returned(table \ gone, s, Cardinality(gone))

\* Mutant of get_stats: the description count takes every row, NULL or not.
get_stats_CountsNullDescription(table, s) ==
    Returned(table, s,
        [total_tasks |-> Cardinality(table),
         pending_tasks |-> Cardinality({t \in table : t.status_id = 1}),
         in_progress_tasks |-> Cardinality({t \in table : t.status_id = 2}),
         completed_tasks |-> Cardinality({t \in table : t.status_id = 3}),
         tasks_with_description |-> Cardinality(table)])

\* TaskCRUD.get_stats
get_stats(table, s) ==
    Returned(table, s,
        [total_tasks |-> Cardinality(table),
         pending_tasks |-> Cardinality({t \in table : t.status_id = 1}),
         in_progress_tasks |-> Cardinality({t \in table : t.status_id = 2}),
         completed_tasks |-> Cardinality({t \in table : t.status_id = 3}),
         tasks_with_description |-> Cardinality({t \in table : t.description.some})])

\* ------------------------------------------------------- request parsing

\* A JSON object's member: absent, null, or a value.
JAbsent == [some |-> FALSE, null |-> FALSE]
JNull == [some |-> FALSE, null |-> TRUE]
JVal(v) == [some |-> TRUE, null |-> FALSE, val |-> v]

\* An Optional[...] = None field: an absent member and null both give None.
OptionalField(j) == IF j.some THEN Some(j.val) ELSE None

\* TaskCreate (TaskBase): name: str is required, description is optional,
\* status_id: int = 1 and flag_id: int = 1 take their default when absent.
\* None: the body does not validate.
ParseTaskCreate(body) ==
    IF ~body.name.some THEN None
    ELSE IF body.status_id.null \/ body.flag_id.null THEN None
    ELSE Some([name |-> body.name.val,
               description |-> OptionalField(body.description),
               status_id |-> IF body.status_id.some THEN body.status_id.val ELSE 1,
               flag_id |-> IF body.flag_id.some THEN body.flag_id.val ELSE 1])

\* TaskUpdate: four Optional fields, default None.
ParseTaskUpdate(body) == [f \in TaskFields |-> OptionalField(body[f])]

\* The integers a path segment of the model may spell.
PathInts == 0..(MaxSeq + 1)

\* task_id: int from a path segment; None when the segment is no integer.
ParseInt(segment) ==
    IF \E n \in PathInts : ToString(n) = segment
    THEN Some(CHOOSE n \in PathInts : ToString(n) = segment)
    ELSE None

\* ---------------------------------------------------------------- routing

\* The routes of the router in the order the decorators register them.
\* A path is its segments after the API prefix: /tasks/ is <<"tasks", "">>.
Routes == <<
    [method |-> "POST",   path |-> <<"tasks", "">>,                 endpoint |-> "create_task"],
    [method |-> "POST",   path |-> <<"tasks", "batch">>,            endpoint |-> "create_tasks_batch"],
    [method |-> "GET",    path |-> <<"tasks", "">>,                 endpoint |-> "get_tasks"],
    [method |-> "GET",    path |-> <<"tasks", "{task_id}">>,        endpoint |-> "get_task"],
    [method |-> "PUT",    path |-> <<"tasks", "{task_id}">>,        endpoint |-> "update_task"],
    [method |-> "DELETE", path |-> <<"tasks", "{task_id}">>,        endpoint |-> "delete_task"],
    [method |-> "DELETE", path |-> <<"tasks", "batch">>,            endpoint |-> "delete_tasks_batch"],
    [method |-> "GET",    path |-> <<"tasks", "stats", "summary">>, endpoint |-> "get_task_stats"],
    [method |-> "GET",    path |-> <<"health">>,                    endpoint |-> "health_check"] >>

\* A path parameter matches one non-empty segment ([^/]+).
SegmentMatches(pattern, segment) ==
    IF pattern = "{task_id}" THEN segment # "" ELSE segment = pattern

PathMatches(pattern, path) ==
    /\ Len(pattern) = Len(path)
    /\ \A i \in 1..Len(pattern) : SegmentMatches(pattern[i], path[i])

\* The router takes the first route whose path and method both match.
Dispatch(method, path) ==
    LET full == {i \in 1..Len(Routes) :
                    PathMatches(Routes[i].path, path) /\ Routes[i].method = method}
        partial == {i \in 1..Len(Routes) : PathMatches(Routes[i].path, path)}
    IN  IF full # {} THEN Routes[CHOOSE i \in full : \A j \in full : i <= j].endpoint
        ELSE IF partial # {} THEN "method_not_allowed"
        ELSE "not_found"

\* --------------------------------------------------------------- handlers

\* What a handler leaves: the table, the sequence, the response.
Response(r, status, body) == [tasks |-> r.tasks, seq |-> r.seq, status |-> status, body |-> body]

\* Request validation failed before the handler ran.
Unprocessable(table, s) == [tasks |-> table, seq |-> s, status |-> 422, body |-> "validation error"]

\* create_task
create_task(table, s, task) ==
    LET r == create(table, s, task)
    IN  IF r.exc = "none" THEN Response(r, 201, r.ret)
        ELSE IF r.exc = "ValueError" THEN Response(r, 400, r.msg)
        ELSE Response(r, 500, "Failed to create task")

\* create_tasks_batch
create_tasks_batch(table, s, batch) ==
    IF batch = << >> THEN [tasks |-> table, seq |-> s, status |-> 400, body |-> "No tasks provided"]
    ELSE IF Len(batch) > MaxBatch
    THEN [tasks |-> table, seq |-> s, status |-> 400, body |-> "Maximum 100 tasks per batch"]
    ELSE LET r == create_batch(table, s, batch)
         IN  IF r.exc = "none" THEN Response(r, 201, r.ret)
             ELSE Response(r, 500, "Failed to create tasks")

\* get_tasks: limit: ge=1, le=1000, default 100; offset: ge=0, default 0.
get_tasks(table, s, query) ==
    LET limit == IF query.limit.some THEN query.limit.val ELSE LimitDefault
        offset == IF query.offset.some THEN query.offset.val ELSE 0
    IN  IF limit < 1 \/ limit > LimitMax \/ offset < 0 THEN Unprocessable(table, s)
        ELSE LET r == IF query.search.some /\ query.search.val # << >>
                      THEN search_tasks(table, s, query.search.val, limit)
                      ELSE IF query.status_id.some
                      THEN get_by_status(table, s, query.status_id.val, limit)
                      ELSE get_all(table, s, limit, offset)
             IN  IF r.exc = "none" THEN Response(r, 200, r.ret)
                 ELSE Response(r, 500, "Failed to fetch tasks")

\* get_task
get_task(table, s, task_id) ==
    LET r == get_by_id(table, s, task_id)
    IN  IF r.exc # "none" THEN Response(r, 500, "Failed to fetch task")
        ELSE IF ~r.ret.some THEN Response(r, 404, "Task not found")
        ELSE Response(r, 200, r.ret.val)

\* update_task
update_task(table, s, task_id, task_update) ==
    LET r == update(table, s, task_id, task_update)
    IN  IF r.exc = "ValueError" THEN Response(r, 400, r.msg)
        ELSE IF r.exc # "none" THEN Response(r, 500, "Failed to update task")
        ELSE IF ~r.ret.some THEN Response(r, 404, "Task not found")
        ELSE Response(r, 200, r.ret.val)

\* delete_task
delete_task(table, s, task_id) ==
    LET r == delete(table, s, task_id)
    IN  IF r.exc # "none" THEN Response(r, 500, "Failed to delete task")
        ELSE IF ~r.ret THEN Response(r, 404, "Task not found")
        ELSE Response(r, 204, None)

\* delete_tasks_batch
delete_tasks_batch(table, s, task_ids) ==
    IF task_ids = << >>
    THEN [tasks |-> table, seq |-> s, status |-> 400, body |-> "No task IDs provided"]
    ELSE IF Len(task_ids) > MaxBatch
    THEN [tasks |-> table, seq |-> s, status |-> 400, body |-> "Maximum 100 tasks per batch deletion"]
    ELSE LET r == delete_batch(table, s, task_ids)
         IN  IF r.exc # "none" THEN Response(r, 500, "Failed to delete tasks")
             ELSE IF r.ret = 0 THEN Response(r, 404, "No tasks found to delete")
             ELSE Response(r, 204, None)

\* round(x, 2) of the rate num / den * 100, in hundredths (3333 is 33.33):
\* to the nearest hundredth, a tie to the even one.
RoundRate(num, den) ==
    LET n == num * 10000
        q == n \div den
        r == n % den
    IN  IF 2 * r < den THEN q
        ELSE IF 2 * r > den THEN q + 1
        ELSE IF q % 2 = 0 THEN q ELSE q + 1

\* get_task_stats
get_task_stats(table, s) ==
    LET r == get_stats(table, s)
        stats == r.ret
    IN  IF r.exc # "none" THEN Response(r, 500, "Failed to fetch statistics")
        ELSE Response(r, 200,
                [total_tasks |-> stats.total_tasks,
                 pending_tasks |-> stats.pending_tasks,
                 in_progress_tasks |-> stats.in_progress_tasks,
                 completed_tasks |-> stats.completed_tasks,
                 tasks_with_description |-> stats.tasks_with_description,
                 completion_rate |-> IF stats.total_tasks > 0
                                     THEN RoundRate(stats.completed_tasks, stats.total_tasks)
                                     ELSE 0])

\* The application serving one request: the router picks the endpoint, the
\* path parameter and the body are validated, the handler runs.
Serve(table, s, request) ==
    LET endpoint == Dispatch(request.method, request.path)
        task_id == ParseInt(request.path[Len(request.path)])
    IN  CASE endpoint = "create_task" ->
                LET task == ParseTaskCreate(request.body)
                IN  IF task.some THEN create_task(table, s, task.val)
                    ELSE Unprocessable(table, s)
          [] endpoint = "create_tasks_batch" ->
                LET batch == [i \in 1..Len(request.body) |-> ParseTaskCreate(request.body[i])]
                IN  IF \A i \in 1..Len(batch) : batch[i].some
                    THEN create_tasks_batch(table, s, [i \in 1..Len(batch) |-> batch[i].val])
                    ELSE Unprocessable(table, s)
          [] endpoint = "get_tasks" -> get_tasks(table, s, request.query)
          [] endpoint = "get_task" ->
                IF task_id.some THEN get_task(table, s, task_id.val)
                ELSE Unprocessable(table, s)
          [] endpoint = "update_task" ->
                IF task_id.some
                THEN update_task(table, s, task_id.val, ParseTaskUpdate(request.body))
                ELSE Unprocessable(table, s)
          [] endpoint = "delete_task" ->
                IF task_id.some THEN delete_task(table, s, task_id.val)
                ELSE Unprocessable(table, s)
          [] endpoint = "delete_tasks_batch" -> delete_tasks_batch(table, s, request.body)
          [] endpoint = "get_task_stats" -> get_task_stats(table, s)
          [] endpoint = "method_not_allowed" ->
                [tasks |-> table, seq |-> s, status |-> 405, body |-> "Method Not Allowed"]
          [] OTHER -> [tasks |-> table, seq |-> s, status |-> 404, body |-> "Not Found"]

\* ----------------------------------------------------------------- inputs

NoQuery == [limit |-> None, offset |-> None, status_id |-> None, search |-> None]

Request(method, path, query, body) ==
    [method |-> method, path |-> path, query |-> query, body |-> body]

NoBody == [f \in TaskFields |-> JAbsent]

\* The TaskCreate bodies the model posts.
CreateBodies ==
    {[NoBody EXCEPT !.name = JVal(sAb)],
     [NoBody EXCEPT !.name = JVal(sAb), !.description = JVal(sDescA), !.status_id = JVal(2)],
     [NoBody EXCEPT !.name = JVal(sB), !.description = JVal(sDescA), !.status_id = JVal(3),
                    !.flag_id = JVal(2)],
     [NoBody EXCEPT !.name = JVal(sEmpty)],
     [NoBody EXCEPT !.name = JVal(sB), !.status_id = JVal(4)],
     [NoBody EXCEPT !.name = JVal(sAb), !.flag_id = JVal(3)],
     NoBody}

\* The elements of the batches the model posts.
bAb == [NoBody EXCEPT !.name = JVal(sAb)]
bB == [NoBody EXCEPT !.name = JVal(sB), !.description = JVal(sDescA), !.status_id = JVal(3)]
bBad == [NoBody EXCEPT !.name = JVal(sEmpty), !.status_id = JVal(4)]

\* The batches the model posts: empty, of one and two elements (valid,
\* repeating a name, with an invalid element), and one over the limit.
CreateBatches ==
    {<< >>, <<bAb>>, <<bAb, bB>>, <<bB, bAb>>, <<bB, bB>>, <<bAb, bBad>>,
     [i \in 1..(MaxBatch + 1) |-> bAb]}

\* The TaskUpdate bodies the model puts.
UpdateBodies ==
    {NoBody,
     [NoBody EXCEPT !.status_id = JVal(2)],
     [NoBody EXCEPT !.status_id = JVal(4)],
     [NoBody EXCEPT !.name = JVal(sB)],
     [NoBody EXCEPT !.description = JVal(sDescA), !.flag_id = JVal(2)],
     [NoBody EXCEPT !.description = JNull]}

\* The query strings of GET /tasks/ the model sends.
Queries ==
    {[NoQuery EXCEPT !.search = Some(sTermA)],
     [NoQuery EXCEPT !.search = Some(sTermA), !.limit = Some(1)],
     [NoQuery EXCEPT !.search = Some(sTermB)],
     [NoQuery EXCEPT !.search = Some(sTermUnderscore)],
     NoQuery,
     [NoQuery EXCEPT !.limit = Some(1), !.offset = Some(1)],
     [NoQuery EXCEPT !.limit = Some(0)],
     [NoQuery EXCEPT !.status_id = Some(3), !.search = Some(sEmpty)]}

\* The id lists of the batch deletions the model sends.
DeleteBatches ==
    {<< >>, <<1, 2, 999>>, <<999>>, [i \in 1..(MaxBatch + 1) |-> i]}

\* ---------------------------------------------------------------- actions

\* The exchange of a request: it is served against the table as it stands.
Exchange(request) ==
    \E out \in {Serve(tasks, seq, request)} :
        /\ out.seq <= MaxSeq
        /\ tasks' = out.tasks
        /\ seq' = out.seq
        /\ resp' = [status |-> out.status, body |-> out.body]
        /\ pre' = tasks
        /\ removed' = removed \cup (Ids(tasks) \ Ids(out.tasks))
        /\ UNCHANGED <<checked_out, ops>>

\* POST /tasks/
PostTask == \E body \in CreateBodies :
    /\ req' = Request("POST", <<"tasks", "">>, NoQuery, body)
    /\ Exchange(req')

\* POST /tasks/batch
PostTasksBatch == \E batch \in CreateBatches :
    /\ req' = Request("POST", <<"tasks", "batch">>, NoQuery, batch)
    /\ Exchange(req')

\* GET /tasks/?limit&offset&status_id&search
GetTasks == \E query \in Queries :
    /\ req' = Request("GET", <<"tasks", "">>, query, None)
    /\ Exchange(req')

\* GET /tasks/{id}
GetTask == \E id \in 1..MaxSeq :
    /\ req' = Request("GET", <<"tasks", ToString(id)>>, NoQuery, None)
    /\ Exchange(req')

\* PUT /tasks/{id}
PutTask == \E id \in 1..MaxSeq, body \in UpdateBodies :
    /\ req' = Request("PUT", <<"tasks", ToString(id)>>, NoQuery, body)
    /\ Exchange(req')

\* DELETE /tasks/{id}
DeleteTask == \E id \in 1..MaxSeq :
    /\ req' = Request("DELETE", <<"tasks", ToString(id)>>, NoQuery, None)
    /\ Exchange(req')

\* DELETE /tasks/batch
DeleteTasksBatch == \E ids \in DeleteBatches :
    /\ req' = Request("DELETE", <<"tasks", "batch">>, NoQuery, ids)
    /\ Exchange(req')

\* GET /tasks/stats/summary
GetTaskStats ==
    /\ req' = Request("GET", <<"tasks", "stats", "summary">>, NoQuery, None)
    /\ Exchange(req')

\* ------------------------------------------- engine operations, step-wise

Clients == 1..NumClients

\* Where a client's operation stands. pc: "idle" (no operation), "waiting"
\* (inside get_db_connection, the pool has no free connection), "acquired"
\* (holds a connection, before its first statement), "checked" (update, past
\* its existence check), "exiting" (result or exception known, its finally
\* block comes next), "returned". call: the operation, known from its first
\* statement on. body: the TaskUpdate of an update that is past its check.
\* exc, some: what the operation raised and whether it returned an entity.
\* raced: observation, the row that update's check had found was gone when
\* its second statement ran.
Op(pc, call, body, exc, some, raced) ==
    [pc |-> pc, call |-> call, body |-> body, exc |-> exc, some |-> some, raced |-> raced]

Idle == Op("idle", "", NoBody, "none", FALSE, FALSE)
Exiting(call, exc, some, raced) == Op("exiting", call, NoBody, exc, some, raced)

\* pool.acquire() hands out a connection while the pool has a free one.
PoolHasFree(n) == n < PoolMax

\* get_db_connection: pool.acquire()
get_db_connection(n) == n + 1

\* close_db_connection: pool.release(conn)
close_db_connection(n) == n - 1

\* Mutant of FinallyReleases: the release runs only when nothing was raised.
FinallyReleases_OnlyOnSuccess(exc) == exc = "none"

\* try: ... finally: await close_db_connection(conn). The finally block runs
\* on every exit of the try block, whatever was raised.
FinallyReleases(exc) == TRUE

\* The table the clients start on: the one a first create has left.
Seeded ==
    create({}, 0, ParseTaskCreate([NoBody EXCEPT !.name = JVal(sAb),
                                                 !.description = JVal(sDescA),
                                                 !.status_id = JVal(2)]).val)

\* The task the clients address.
SeededId == Seeded.ret.id

\* The operations that run one statement (create_batch: one transaction) on
\* their connection, with the arguments the clients pass.
Calls ==
    {"create", "create_batch", "get_all", "get_by_id", "get_by_status",
     "search_tasks", "delete", "delete_batch", "get_stats"}

EngineCall(call, table, s) ==
    CASE call = "create" -> create(table, s, ParseTaskCreate(bAb).val)
      [] call = "create_batch" -> create_batch(table, s, <<ParseTaskCreate(bB).val>>)
      [] call = "get_all" -> get_all(table, s, LimitDefault, 0)
      [] call = "get_by_id" -> get_by_id(table, s, SeededId)
      [] call = "get_by_status" -> get_by_status(table, s, 1, LimitDefault)
      [] call = "search_tasks" -> search_tasks(table, s, sTermA, LimitDefault)
      [] call = "delete" -> delete(table, s, SeededId)
      [] call = "delete_batch" -> delete_batch(table, s, <<SeededId>>)
      [] call = "get_stats" -> get_stats(table, s)

\* The TaskUpdate bodies of the clients' updates: no field, and one field.
RaceBodies == {NoBody, [NoBody EXCEPT !.status_id = JVal(2)]}

\* update_task: the status code it gives what TaskCRUD.update raised or
\* returned.
update_task_status(exc, some) ==
    IF exc = "ValueError" THEN 400
    ELSE IF exc # "none" THEN 500
    ELSE IF ~some THEN 404
    ELSE 200

\* A client calls an operation: conn = await get_db_connection(). It gets a
\* connection at once when the pool has a free one and waits otherwise.
\* Which operation it is shows first in its first statement, and the model
\* draws it there.
Invoke(c) ==
    /\ ops[c].pc = "idle"
    /\ IF PoolHasFree(checked_out)
       THEN /\ checked_out' = get_db_connection(checked_out)
            /\ ops' = [ops EXCEPT ![c].pc = "acquired"]
       ELSE /\ checked_out' = checked_out
            /\ ops' = [ops EXCEPT ![c].pc = "waiting"]
    /\ UNCHANGED <<tasks, seq, req, resp, pre, removed>>

\* A waiting client gets the connection another client has released.
Acquire(c) ==
    /\ ops[c].pc = "waiting"
    /\ PoolHasFree(checked_out)
    /\ checked_out' = get_db_connection(checked_out)
    /\ ops' = [ops EXCEPT ![c].pc = "acquired"]
    /\ UNCHANGED <<tasks, seq, req, resp, pre, removed>>

\* create_batch([]) and delete_batch([]) return before they ask for a
\* connection.
ReturnEarly(c) ==
    /\ ops[c].pc = "idle"
    /\ \E call \in {"create_batch", "delete_batch"} :
          \E r \in {IF call = "create_batch"
                    THEN [t \in {"tasks", "seq"} |-> create_batch(tasks, seq, << >>)[t]]
                    ELSE [t \in {"tasks", "seq"} |-> delete_batch(tasks, seq, << >>)[t]]} :
              /\ tasks' = r.tasks
              /\ seq' = r.seq
    /\ ops' = [ops EXCEPT ![c].pc = "returned"]
    /\ UNCHANGED <<req, resp, pre, removed, checked_out>>

\* The statement of a one-statement operation runs on the table as it
\* stands; the operation returns or raises, and its finally block is next.
Statement(c) ==
    /\ ops[c].pc = "acquired"
    /\ \E call \in Calls :
          \E r \in {EngineCall(call, tasks, seq)} :
              /\ r.seq <= MaxSeq
              /\ tasks' = r.tasks
              /\ seq' = r.seq
              /\ ops' = [ops EXCEPT ![c] = Exiting(call, r.exc, TRUE, FALSE)]
    /\ UNCHANGED <<req, resp, pre, removed, checked_out>>

\* update's first statement, SELECT id FROM tasks WHERE id = $1: no row,
\* return None; a row, go on.
UpdateCheck(c) ==
    /\ ops[c].pc = "acquired"
    /\ \E body \in RaceBodies :
          ops' = [ops EXCEPT ![c] =
                    IF SeededId \in Ids(tasks)
                    THEN Op("checked", "update", body, "none", FALSE, FALSE)
                    ELSE Exiting("update", "none", FALSE, FALSE)]
    /\ UNCHANGED <<tasks, seq, req, resp, pre, removed, checked_out>>

\* update's second statement, on the table as it stands by then.
UpdateApply(c) ==
    /\ ops[c].pc = "checked"
    /\ \E r \in {update_after_check(tasks, seq, SeededId, ParseTaskUpdate(ops[c].body))} :
          /\ tasks' = r.tasks
          /\ seq' = r.seq
          /\ ops' = [ops EXCEPT ![c] =
                        Exiting("update", r.exc, r.ret.some, SeededId \notin Ids(tasks))]
    /\ UNCHANGED <<req, resp, pre, removed, checked_out>>

\* The finally block of the operation, then its return or its exception
\* reaches the caller.
Release(c) ==
    /\ ops[c].pc = "exiting"
    /\ checked_out' = IF FinallyReleases(ops[c].exc)
                      THEN close_db_connection(checked_out)
                      ELSE checked_out
    /\ ops' = [ops EXCEPT ![c] = [Idle EXCEPT !.pc = "returned"]]
    /\ UNCHANGED <<tasks, seq, req, resp, pre, removed>>

\* The client is done with the operation and free to call the next.
Return(c) ==
    /\ ops[c].pc = "returned"
    /\ ops' = [ops EXCEPT ![c] = Idle]
    /\ UNCHANGED <<tasks, seq, req, resp, pre, removed, checked_out>>

\* ------------------------------------------------------- specifications

Init ==
    /\ tasks = {}
    /\ seq = 0
    /\ req = Request("NONE", << >>, NoQuery, None)
    /\ resp = [status |-> 0, body |-> None]
    /\ pre = {}
    /\ removed = {}
    /\ checked_out = 0
    /\ ops = [c \in Clients |-> Idle]

Next ==
    \/ PostTask
    \/ PostTasksBatch
    \/ GetTasks
    \/ GetTask
    \/ PutTask
    \/ DeleteTask
    \/ DeleteTasksBatch
    \/ GetTaskStats

Spec == Init /\ [][Next]_vars

\* Concurrent clients of the engine on a table that holds one task.
InitPool ==
    /\ tasks = Seeded.tasks
    /\ seq = Seeded.seq
    /\ req = Request("NONE", << >>, NoQuery, None)
    /\ resp = [status |-> 0, body |-> None]
    /\ pre = {}
    /\ removed = {}
    /\ checked_out = 0
    /\ ops = [c \in Clients |-> Idle]

NextPool ==
    \/ \E c \in Clients : Invoke(c)
    \/ \E c \in Clients : Acquire(c)
    \/ \E c \in Clients : ReturnEarly(c)
    \/ \E c \in Clients : Statement(c)
    \/ \E c \in Clients : UpdateCheck(c)
    \/ \E c \in Clients : UpdateApply(c)
    \/ \E c \in Clients : Release(c)
    \/ \E c \in Clients : Return(c)

SpecPool == InitPool /\ [][NextPool]_vars

\* ------------------------------------------------------------- properties

\* What the last request was.
IsPostTask == req.method = "POST" /\ req.path = <<"tasks", "">>
IsPostBatch == req.method = "POST" /\ req.path = <<"tasks", "batch">>
IsGetTasks == req.method = "GET" /\ req.path = <<"tasks", "">>
IsDeleteBatch == req.method = "DELETE" /\ req.path = <<"tasks", "batch">>
IsStats == req.method = "GET" /\ req.path = <<"tasks", "stats", "summary">>
IsPutTask == req.method = "PUT" /\ Len(req.path) = 2
IsDeleteTask == req.method = "DELETE" /\ Len(req.path) = 2 /\ ParseInt(req.path[2]).some
PathId == ParseInt(req.path[2]).val

Names(table) == {t.name : t \in table}
ValidRefs(task) == task.status_id \in {1, 2, 3} /\ task.flag_id \in {1, 2}

\* The posted batch as TaskCreate items.
BatchItems == [i \in 1..Len(req.body) |-> ParseTaskCreate(req.body[i]).val]
BatchInRange == IsPostBatch /\ Len(req.body) >= 1 /\ Len(req.body) <= MaxBatch

\* Inserting item i of the batch fails: its name is stored already or was
\* given by an earlier item, or its status_id or flag_id is not enumerated.
BatchItemFails(i) ==
    \/ BatchItems[i].name \in Names(pre)
    \/ \E j \in 1..(i - 1) : BatchItems[j].name = BatchItems[i].name
    \/ ~ValidRefs(BatchItems[i])

\* C1: a batch creation of 1-100 items in which at least one insert fails
\* leaves the stored tasks exactly as they were before the call.
C1_BatchAllOrNothing ==
    (BatchInRange /\ \E i \in 1..Len(req.body) : BatchItemFails(i)) => tasks = pre

\* C1 witness: a batch whose first item could be inserted and whose second
\* could not has been answered.
C1_Witness ==
    /\ BatchInRange /\ Len(req.body) = 2
    /\ ~BatchItemFails(1) /\ BatchItemFails(2)
    /\ resp.status = 500 /\ seq > 0

\* C2: POST /tasks/batch with 1-100 valid items, their names pairwise
\* distinct and not stored yet, responds 201 with one Task per item, and
\* every item is a stored row afterwards (the store grows by the batch size).
C2_BatchCreated ==
    (BatchInRange /\ \A i \in 1..Len(req.body) : ~BatchItemFails(i)) =>
        /\ resp.status = 201
        /\ Len(resp.body) = Len(req.body)
        /\ \A i \in 1..Len(req.body) :
              \E t \in tasks \ pre :
                 /\ t.name = BatchItems[i].name
                 /\ t.description = BatchItems[i].description
                 /\ t.status_id = BatchItems[i].status_id
                 /\ t.flag_id = BatchItems[i].flag_id
        /\ Cardinality(tasks) = Cardinality(pre) + Len(req.body)

\* The fields a PUT body supplies with a value.
Supplied == {f \in TaskFields : req.body[f].some}
PutOnExisting == IsPutTask /\ ParseInt(req.path[2]).some /\ PathId \in Ids(pre)

\* The row the update should leave: supplied fields take the supplied
\* value, the id and the other fields stay.
UpdatedRow(old) ==
    [c \in DOMAIN old |->
        IF c \in Supplied
        THEN (IF c = "description" THEN Some(req.body[c].val) ELSE req.body[c].val)
        ELSE old[c]]

\* The supplied values are ones the table accepts.
SuppliedAcceptable ==
    /\ \A f \in TaskFields : ~req.body[f].null
    /\ ("status_id" \in Supplied => req.body.status_id.val \in {1, 2, 3})
    /\ ("flag_id" \in Supplied => req.body.flag_id.val \in {1, 2})
    /\ ("name" \in Supplied =>
            \A t \in pre : t.id # PathId => t.name # req.body.name.val)

\* C3: an update of an existing task with no field set returns the entity
\* and leaves the store unchanged; with a non-empty subset of the fields it
\* sets each supplied field to the supplied value and leaves the other
\* fields, the id and every other task untouched.
C3_PartialUpdate ==
    (PutOnExisting /\ SuppliedAcceptable) =>
        LET old == RowOf(pre, PathId)
        IN  /\ resp.status = 200
            /\ resp.body = UpdatedRow(old)
            /\ tasks = (pre \ {old}) \cup {UpdatedRow(old)}

\* C4: a create whose name is that of a stored task is answered 400 and
\* inserts nothing, and no two stored tasks share a name.
C4_DuplicateNameRejected ==
    /\ (IsPostTask /\ req.body.name.some /\ req.body.name.val \in Names(pre)) =>
            (resp.status = 400 /\ tasks = pre)
    /\ \A t, u \in tasks : t.name = u.name => t = u

\* C5: a create or an update whose status_id is outside {1,2,3} or whose
\* flag_id is outside {1,2} is answered 400 and leaves the store unchanged.
C5_InvalidReferenceRejected ==
    LET bad == \/ (req.body.status_id.some /\ req.body.status_id.val \notin {1, 2, 3})
               \/ (req.body.flag_id.some /\ req.body.flag_id.val \notin {1, 2})
    IN  ((IsPostTask /\ req.body.name.some /\ bad) \/ (PutOnExisting /\ bad)) =>
            (resp.status = 400 /\ tasks = pre)

\* The ids a batch deletion lists.
Listed == {req.body[i] : i \in 1..Len(req.body)}

\* C6: DELETE /tasks/batch with 1-100 ids removes exactly the stored tasks
\* whose id is listed and responds 204 when a listed id existed, 404 when
\* none did; with an empty list or more than 100 ids it responds 400.
C6_BatchDelete ==
    IsDeleteBatch =>
        IF Len(req.body) = 0 \/ Len(req.body) > MaxBatch
        THEN resp.status = 400 /\ tasks = pre
        ELSE IF Listed \cap Ids(pre) # {}
        THEN resp.status = 204 /\ tasks = {t \in pre : t.id \notin Listed}
        ELSE resp.status = 404 /\ tasks = pre

\* C7: the delete of a stored task removes exactly its row and reports
\* success (204); the delete of an id with no row reports NotFound (404)
\* and removes nothing; and an id whose row was removed has no row again,
\* so every later delete of it is of the second kind.
C7_DeleteIdempotent ==
    /\ IsDeleteTask =>
          IF PathId \in Ids(pre)
          THEN resp.status = 204 /\ tasks = pre \ {RowOf(pre, PathId)}
          ELSE resp.status = 404 /\ tasks = pre
    /\ removed \cap Ids(tasks) = {}

\* C7 witness: a delete of an id that an earlier delete had removed.
C7_Witness ==
    /\ IsDeleteTask
    /\ PathId \in removed /\ PathId \notin Ids(pre)
    /\ resp.status = 404

\* term occurs in text, letters compared whatever their case.
ContainsCI(text, term) ==
    \E k \in 0..(Len(text) - Len(term)) :
        \A j \in 1..Len(term) : Lower(text[k + j]) = Lower(term[j])

InName(t, term) == ContainsCI(t.name, term)
InDescription(t, term) == t.description.some /\ ContainsCI(t.description.val, term)

\* Task t comes before task u in the search order: a match in the name
\* before a match in the description only, ascending id within each.
SearchBefore(t, u, term) ==
    \/ InName(t, term) /\ ~InName(u, term)
    \/ (InName(t, term) <=> InName(u, term)) /\ t.id < u.id

IsSearch ==
    /\ IsGetTasks /\ req.query.search.some /\ req.query.search.val # << >>
    /\ (req.query.limit.some => req.query.limit.val \in 1..LimitMax)

\* C8: a search returns exactly the stored tasks whose name or description
\* contains the term, letters compared whatever their case, cut to the
\* limit, name matches before description-only matches, ascending id within
\* each group.
C8_SearchExact ==
    IsSearch =>
        LET term == req.query.search.val
            limit == IF req.query.limit.some THEN req.query.limit.val ELSE LimitDefault
            hits == {t \in tasks : InName(t, term) \/ InDescription(t, term)}
            body == resp.body
        IN  /\ resp.status = 200
            /\ Len(body) = Min(limit, Cardinality(hits))
            /\ \A i \in 1..Len(body) : body[i] \in hits
            /\ \A i, j \in 1..Len(body) : i < j => SearchBefore(body[i], body[j], term)
            /\ \A t \in hits :
                  (\A i \in 1..Len(body) : body[i] # t) =>
                      \A i \in 1..Len(body) : SearchBefore(body[i], t, term)

\* C9: the statistics summary reports the number of stored tasks, the
\* number with status 1, 2 and 3, and the number with a non-null
\* description; on an empty store it reports total 0 and completion_rate 0.
C9_StatsCounts ==
    IsStats =>
        /\ resp.status = 200
        /\ resp.body.total_tasks = Cardinality(tasks)
        /\ resp.body.pending_tasks = Cardinality({t \in tasks : t.status_id = 1})
        /\ resp.body.in_progress_tasks = Cardinality({t \in tasks : t.status_id = 2})
        /\ resp.body.completed_tasks = Cardinality({t \in tasks : t.status_id = 3})
        /\ resp.body.tasks_with_description =
              Cardinality({t \in tasks : t.description # None})
        /\ (tasks = {} => resp.body.total_tasks = 0 /\ resp.body.completion_rate = 0)

\* C9 witness: a summary asked after creates and a delete, of a store that
\* holds a completed task, a task with a description and one without.
C9_Witness ==
    /\ IsStats /\ removed # {}
    /\ \E t \in tasks : t.status_id = 3
    /\ \E t \in tasks : t.description # None
    /\ \E t \in tasks : t.description = None

\* C10: a create whose name is the empty string is refused, and no stored
\* task has an empty name.
C10_EmptyNameRejected ==
    /\ (IsPostTask /\ req.body.name.some /\ req.body.name.val = << >>) =>
            (resp.status \in {400, 422} /\ tasks = pre)
    /\ \A t \in tasks : t.name # << >>

\* C11: an update that sets description to null on a task whose description
\* is not null clears the description, and an update that omits description
\* leaves the description as it was.
C11_NullClearsDescription ==
    PutOnExisting =>
        LET old == RowOf(pre, PathId)
        IN  /\ (req.body.description.null /\ old.description # None) =>
                  /\ PathId \in Ids(tasks)
                  /\ RowOf(tasks, PathId).description = None
            /\ (~req.body.description.null /\ ~req.body.description.some) =>
                  /\ PathId \in Ids(tasks)
                  /\ RowOf(tasks, PathId).description = old.description

\* The clients whose operation holds a connection, and those whose
\* operation has been called and has not returned.
Holding == {c \in Clients : ops[c].pc \in {"acquired", "checked", "exiting"}}
InFlight == {c \in Clients : ops[c].pc \in {"waiting", "acquired", "checked", "exiting"}}

\* C12: under any interleaving of concurrent operations the number of
\* checked-out connections equals the number of operations in flight, never
\* exceeds the pool maximum, and is 0 once all operations have finished.
C12_NoConnectionLeak ==
    /\ checked_out = Cardinality(InFlight)
    /\ checked_out <= PoolMax
    /\ (InFlight = {} => checked_out = 0)

\* C12 as amended: the number of checked-out connections equals the number
\* of operations that have acquired a connection and not yet run their
\* finally block (an operation waiting for a free connection holds none),
\* never exceeds the pool maximum, and is 0 once all operations have
\* finished.
C12_NoConnectionLeak_Holders ==
    /\ checked_out = Cardinality(Holding)
    /\ checked_out <= PoolMax
    /\ (InFlight = {} => checked_out = 0)

\* C12 witness: the pool is exhausted, one operation waits for a connection,
\* one is leaving on a domain error (ValueError) and one on an unexpected
\* failure, after a statement that took a value of the id sequence.
C12_Witness ==
    /\ checked_out = PoolMax
    /\ \E c \in Clients : ops[c].pc = "waiting"
    /\ \E c \in Clients : ops[c].pc = "exiting" /\ ops[c].exc \notin {"none", "ValueError"}
    /\ \E c \in Clients : ops[c].pc = "exiting" /\ ops[c].exc = "ValueError"
    /\ seq > Seeded.seq

\* C13: when a delete of the same id commits between update's existence
\* check and its second statement, update ends in the updated entity (200)
\* or in the not-found signal (404), never in an unexpected failure (500),
\* and the deleted row is not recreated.
C13_UpdateSurvivesDelete ==
    \A c \in Clients :
        (ops[c].pc = "exiting" /\ ops[c].call = "update" /\ ops[c].raced) =>
            /\ update_task_status(ops[c].exc, ops[c].some) \in {200, 404}
            /\ SeededId \notin Ids(tasks)

====
